---------------------------- MODULE Spec2Model ----------------------------
(***************************************************************************)
(* rmpv::ext::se -- conversion of any serde `Serialize` value into an      *)
(* rmpv `Value` tree (src/rmpv/src/ext/se.rs).                             *)
(*                                                                         *)
(* A producer (a `Serialize` implementation) is a term that records the    *)
(* serde calls it makes: its `call` field names the Serializer method it   *)
(* invokes and the other fields are that call's arguments.  The handlers   *)
(* of se.rs are operators on the serializer/builder records; `to_value`    *)
(* runs a whole producer term, and the state machine below lets a producer *)
(* drive the builders one call at a time (also out of protocol).           *)
(***************************************************************************)
EXTENDS Integers, Sequences, FiniteSets, TLC

----------------------------------------------------------------------------
(* Bounds of the model *)

\* builder calls (serialize_element / serialize_field) in one open composite
MaxElems == 3
\* serialize_key / serialize_value calls on one open map
MaxMapCalls == 4

\* nesting depth of the value trees converted back through their own Serialize
MaxDepth == 2

(* Program constants *)

\* i8::MIN and i8::MAX, the range of `tag: Option<i8>`
I8_MIN == -128
I8_MAX == 127

MSGPACK_EXT_STRUCT_NAME == "_ExtStruct"

----------------------------------------------------------------------------
(* Option<T> as a sequence of length at most one *)

None == <<>>
Some(x) == <<x>>
is_none(o) == o = <<>>
is_some(o) == o # <<>>
unwrap(o) == o[1]

(* Result<T, Error>, plus the panic channel *)

Ok(v) == [k |-> "Ok", val |-> v]
Err(msg) == [k |-> "Err", msg |-> msg]
Panic(msg) == [k |-> "Panic", msg |-> msg]
IsOk(r) == r.k = "Ok"
IsErr(r) == r.k = "Err"
IsPanic(r) == r.k = "Panic"

\* the unit value () returned by the builders' element calls
Unit == [t |-> "()"]

\* <Error as ser::Error>::custom(msg) = Error::Syntax(format!("{msg}"))
Error_custom(msg) == Err(msg)

----------------------------------------------------------------------------
(* rmpv::Value nodes *)

Nil == [t |-> "Nil"]
Boolean(b) == [t |-> "Boolean", b |-> b]
Integer(sign, n) == [t |-> "Integer", sign |-> sign, n |-> n]
F32(f) == [t |-> "F32", f |-> f]
F64(f) == [t |-> "F64", f |-> f]
\* Utf8String { s: Ok(text) }: the UTF-8-valid branch
String(s) == [t |-> "String", utf8 |-> TRUE, s |-> s]
\* Utf8String { s: Err((bytes, _)) }: the fallback branch
StringRaw(raw) == [t |-> "String", utf8 |-> FALSE, raw |-> raw]
Binary(bin) == [t |-> "Binary", bin |-> bin]
Array(arr) == [t |-> "Array", arr |-> arr]
Map(pairs) == [t |-> "Map", pairs |-> pairs]
Ext(tag, data) == [t |-> "Ext", tag |-> tag, data |-> data]

\* Value::from(u32) / Value::from(u64): an unsigned Integer
Value_from_u64(n) == Integer("PosInt", n)
\* Value::from(i64): a signed Integer
Value_from_i64(n) == Integer("NegInt", n)

\* the two's complement bytes of an integer of `size` bytes, little endian
to_le_bytes(val, size) == [i \in 1..size |-> (val \div 256 ^ (i - 1)) % 256]

\* u64::from_le_bytes: the number the bytes spell as a natural
RECURSIVE from_le_bytes(_)
from_le_bytes(b) == IF b = <<>> THEN 0 ELSE Head(b) + 256 * from_le_bytes(Tail(b))

\* mutant: only the low byte is kept before the extension (val as i8 as i64)
i64_from_truncated(size, val) ==
    LET b == to_le_bytes(val, 1)
    IN  IF b[1] >= 128 THEN b[1] - 256 ELSE b[1]

\* i64::from(i8 | i16 | i32): the `size` bytes are sign extended to 8 bytes,
\* which are read as a two's complement i64
i64_from(size, val) ==
    LET b == to_le_bytes(val, size)
        ext == b \o [i \in 1..(8 - size) |-> IF b[size] >= 128 THEN 255 ELSE 0]
    IN  IF ext[8] >= 128
        THEN -from_le_bytes([i \in 1..8 |-> 255 - ext[i]]) - 1
        ELSE from_le_bytes(ext)

\* u64::from(u8 | u16 | u32): the `size` bytes are zero extended to 8 bytes
u64_from(size, val) ==
    from_le_bytes(to_le_bytes(val, size) \o [i \in 1..(8 - size) |-> 0])

----------------------------------------------------------------------------
(* impl ser::Serializer for Serializer: the calls that need no recursion *)

Serializer_serialize_bool(val) == Ok(Boolean(val))
Serializer_serialize_i64(val) == Ok(Value_from_i64(val))
Serializer_serialize_i8(val) == Serializer_serialize_i64(i64_from(1, val))
Serializer_serialize_i16(val) == Serializer_serialize_i64(i64_from(2, val))
Serializer_serialize_i32(val) == Serializer_serialize_i64(i64_from(4, val))
\* mutant: the unsigned value goes through the signed constructor (val as i64)
Serializer_serialize_u64_signed(val) == Ok(Value_from_i64(val))
Serializer_serialize_u64(val) == Ok(Value_from_u64(val))
Serializer_serialize_u8(val) == Serializer_serialize_u64(u64_from(1, val))
Serializer_serialize_u16(val) == Serializer_serialize_u64(u64_from(2, val))
Serializer_serialize_u32(val) == Serializer_serialize_u64(u64_from(4, val))
Serializer_serialize_f32(val) == Ok(F32(val))
Serializer_serialize_f64(val) == Ok(F64(val))
Serializer_serialize_str(val) == Ok(String(val))
\* buf = String::new(); buf.push(val); serialize_str(&buf)
Serializer_serialize_char(val) == Serializer_serialize_str(Append(<<>>, val))
\* mutant: the bytes go through the string constructor (Utf8String::from(val)),
\* text when they are ASCII and the fallback branch otherwise
Serializer_serialize_bytes_as_string(val) ==
    IF \A i \in 1..Len(val) : val[i] < 128 THEN Ok(String(val)) ELSE Ok(StringRaw(val))
Serializer_serialize_bytes(val) == Ok(Binary(val))
Serializer_serialize_unit == Ok(Nil)
\* mutant: a unit struct is written as unit
Serializer_serialize_unit_struct_nil(name) == Serializer_serialize_unit
Serializer_serialize_unit_struct(name) == Ok(Array(<<>>))
Serializer_serialize_unit_variant(name, idx, variant) ==
    Ok(Array(<<Value_from_u64(idx), Array(<<>>)>>))
Serializer_serialize_none == Serializer_serialize_unit

\* the builders the composite-open calls return; `len` only sizes the Vec
Serializer_serialize_seq(len) == Ok([vec |-> <<>>])
Serializer_serialize_tuple(len) == Serializer_serialize_seq(Some(len))
Serializer_serialize_tuple_struct(name, len) == Serializer_serialize_tuple(len)
Serializer_serialize_struct(name, len) == Serializer_serialize_tuple_struct(name, len)
Serializer_serialize_tuple_variant(name, idx, variant, len) ==
    Ok([idx |-> idx, vec |-> <<>>])
Serializer_serialize_struct_variant(name, idx, variant, len) ==
    Ok([idx |-> idx, vec |-> <<>>])
Serializer_serialize_map(len) == Ok([map |-> <<>>, next_key |-> None])

----------------------------------------------------------------------------
(* Extension capture, stage 2: impl ser::Serializer for &mut ExtFieldSerializer *)

ExtFieldSerializer_new == [tag |-> None, binary |-> None]

\* mutant: the tag is kept as an unsigned byte (value as u8)
ExtFieldSerializer_serialize_i8_unsigned(self, value) ==
    IF is_none(self.tag)
    THEN [self |-> [self EXCEPT !.tag = Some(value % 256)], ret |-> Ok(Unit)]
    ELSE [self |-> self, ret |-> Error_custom("received second i8")]

\* mutant: a second i8 replaces the first
ExtFieldSerializer_serialize_i8_replace(self, value) ==
    [self |-> [self EXCEPT !.tag = Some(value)], ret |-> Ok(Unit)]

ExtFieldSerializer_serialize_i8(self, value) ==
    IF is_none(self.tag)
    THEN [self |-> [self EXCEPT !.tag = Some(value)], ret |-> Ok(Unit)]
    ELSE [self |-> self, ret |-> Error_custom("received second i8")]

\* mutant: the payload is accepted only after the tag
ExtFieldSerializer_serialize_bytes_after_tag(self, val) ==
    IF is_none(self.binary) /\ is_some(self.tag)
    THEN [self |-> [self EXCEPT !.binary = Some(val)], ret |-> Ok(Unit)]
    ELSE [self |-> self, ret |-> Error_custom("expected i8 and bytes")]

ExtFieldSerializer_serialize_bytes(self, val) ==
    IF is_none(self.binary)
    THEN [self |-> [self EXCEPT !.binary = Some(val)], ret |-> Ok(Unit)]
    ELSE [self |-> self, ret |-> Error_custom("expected i8 and bytes")]

\* every other call of the trait (serialize_bool .. serialize_struct_variant)
ExtFieldSerializer_serialize_other(self) ==
    [self |-> self, ret |-> Error_custom("expected i8 and bytes")]

\* mutant: a missing payload defaults to the empty one
ExtFieldSerializer_value_default_payload(self) ==
    IF is_some(self.tag)
    THEN Ok(Ext(unwrap(self.tag), IF is_some(self.binary) THEN unwrap(self.binary) ELSE <<>>))
    ELSE Error_custom("expected i8 and bytes")

ExtFieldSerializer_value(self) ==
    IF is_some(self.tag) /\ is_some(self.binary)
    THEN Ok(Ext(unwrap(self.tag), unwrap(self.binary)))
    ELSE Error_custom("expected i8 and bytes")

----------------------------------------------------------------------------
(* The state of one top-level conversion driven call by call *)

VARIABLES
    pc,                 \* which serializer or builder the producer holds
    input,              \* the producer's first call on the Serializer
    se,                 \* the open builder (SerializeVec, ..., ExtSerializer)
    ret,                \* what the last builder call returned to the producer
    log,                \* the builder calls made so far, each with its return
    result,             \* what to_value returned to its caller
    debug_assertions    \* the build profile: debug_assert! is compiled in

vars == <<pc, input, se, ret, log, result, debug_assertions>>

----------------------------------------------------------------------------
(* Producers: the `Serialize` implementations handed to to_value *)

V_bool(b) == [call |-> "serialize_bool", b |-> b]
V_int(call, n) == [call |-> call, n |-> n]
V_i8(n) == V_int("serialize_i8", n)
V_f32(f) == [call |-> "serialize_f32", f |-> f]
V_f64(f) == [call |-> "serialize_f64", f |-> f]
V_char(c) == [call |-> "serialize_char", c |-> c]
V_str(s) == [call |-> "serialize_str", s |-> s]
V_bytes(bytes) == [call |-> "serialize_bytes", bytes |-> bytes]
V_unit == [call |-> "serialize_unit"]
V_none == [call |-> "serialize_none"]
V_unit_struct(name) == [call |-> "serialize_unit_struct", name |-> name]
V_unit_variant(name, idx, variant) ==
    [call |-> "serialize_unit_variant", name |-> name, idx |-> idx, variant |-> variant]
V_some(value) == [call |-> "serialize_some", value |-> value]
V_newtype_struct(name, value) ==
    [call |-> "serialize_newtype_struct", name |-> name, value |-> value]
V_newtype_variant(name, idx, variant, value) ==
    [call |-> "serialize_newtype_variant", name |-> name, idx |-> idx,
     variant |-> variant, value |-> value]
V_seq(len_opt, elems) == [call |-> "serialize_seq", len_opt |-> len_opt, elems |-> elems]
V_tuple(len, elems) == [call |-> "serialize_tuple", len |-> len, elems |-> elems]
V_tuple_struct(name, len, elems) ==
    [call |-> "serialize_tuple_struct", name |-> name, len |-> len, elems |-> elems]
V_struct(name, len, fields) ==
    [call |-> "serialize_struct", name |-> name, len |-> len, fields |-> fields]
V_tuple_variant(name, idx, variant, len, elems) ==
    [call |-> "serialize_tuple_variant", name |-> name, idx |-> idx,
     variant |-> variant, len |-> len, elems |-> elems]
V_struct_variant(name, idx, variant, len, fields) ==
    [call |-> "serialize_struct_variant", name |-> name, idx |-> idx,
     variant |-> variant, len |-> len, fields |-> fields]
V_map(len_opt, ops) == [call |-> "serialize_map", len_opt |-> len_opt, ops |-> ops]
\* a producer that is itself a value-tree node (T = Value)
V_value(node) == [call |-> "Value::serialize", node |-> node]
\* a producer that makes no call and returns Err(S::Error::custom(..)) itself
V_custom_error == [call |-> "Error::custom"]

\* a struct field and a map builder call as the producer issues them
Field(key, value) == [key |-> key, value |-> value]
MapCall(op, value) == [op |-> op, value |-> value]
\* SerializeMap::serialize_entry (serde's default): the key, then the value
Entry(key, value) == <<MapCall("serialize_key", key), MapCall("serialize_value", value)>>

----------------------------------------------------------------------------
(* impl Serialize for Value: the calls a value-tree node makes as a producer *)

RECURSIVE Value_serialize(_)
Value_serialize(v) ==
    CASE v.t = "Nil" -> V_unit
      [] v.t = "Boolean" -> V_bool(v.b)
      [] v.t = "Integer" ->
            IF v.sign = "PosInt" THEN V_int("serialize_u64", v.n)
            ELSE V_int("serialize_i64", v.n)
      [] v.t = "F32" -> V_f32(v.f)
      [] v.t = "F64" -> V_f64(v.f)
      \* Bytes::new(..).serialize(s) calls s.serialize_bytes
      [] v.t = "String" -> IF v.utf8 THEN V_str(v.s) ELSE V_bytes(v.raw)
      [] v.t = "Binary" -> V_bytes(v.bin)
      [] v.t = "Array" ->
            V_seq(Some(Len(v.arr)), [i \in 1..Len(v.arr) |-> Value_serialize(v.arr[i])])
      [] v.t = "Map" ->
            V_map(Some(Len(v.pairs)),
                  [i \in 1..(2 * Len(v.pairs)) |->
                      IF i % 2 = 1
                      THEN MapCall("serialize_key", Value_serialize(v.pairs[(i + 1) \div 2][1]))
                      ELSE MapCall("serialize_value", Value_serialize(v.pairs[i \div 2][2]))])
      \* the tuple (ty, Bytes) serializes as serialize_tuple(2) of an i8 and bytes
      [] v.t = "Ext" ->
            V_newtype_struct(MSGPACK_EXT_STRUCT_NAME,
                             V_tuple(2, <<V_i8(v.tag), V_bytes(v.data)>>))

----------------------------------------------------------------------------
(* value.serialize(&mut ExtFieldSerializer): the one call the element makes *)

Serialize_ExtFieldSerializer(value, self) ==
    CASE value.call = "serialize_i8" -> ExtFieldSerializer_serialize_i8(self, value.n)
      [] value.call = "serialize_bytes" -> ExtFieldSerializer_serialize_bytes(self, value.bytes)
      [] value.call = "Error::custom" -> [self |-> self, ret |-> Error_custom("custom")]
      [] OTHER -> ExtFieldSerializer_serialize_other(self)

(* Extension capture, stage 1: impl ser::Serializer for &mut ExtSerializer *)

ExtSerializer_new == [fields_se |-> None]

\* mutant: the tuple is opened without installing the field serializer
ExtSerializer_serialize_tuple_uninstalled(self, len) ==
    [self |-> self, ret |-> Ok(Unit)]

ExtSerializer_serialize_tuple(self, len) ==
    [self |-> [self EXCEPT !.fields_se = Some(ExtFieldSerializer_new)], ret |-> Ok(Unit)]

\* every other call of the trait (serialize_bytes .. serialize_struct_variant)
ExtSerializer_serialize_other(self) ==
    [self |-> self, ret |-> Error_custom("expected tuple")]

\* <&mut ExtSerializer as SerializeTuple>::serialize_element
ExtSerializer_serialize_element(self, value) ==
    IF is_some(self.fields_se)
    THEN LET s == Serialize_ExtFieldSerializer(value, unwrap(self.fields_se))
         IN  [self |-> [self EXCEPT !.fields_se = Some(s.self)], ret |-> s.ret]
    ELSE [self |-> self,
          ret |-> IF debug_assertions THEN Panic("assertion failed: false")
                  ELSE Err("")]

\* <&mut ExtSerializer as SerializeTuple>::end
ExtSerializer_end(self) == Ok(Unit)

ExtSerializer_value(self) ==
    IF is_some(self.fields_se)
    THEN ExtFieldSerializer_value(unwrap(self.fields_se))
    ELSE Error_custom("expected tuple")

----------------------------------------------------------------------------
(* The composite builders of the Serializer *)

RECURSIVE to_value(_)

\* mutant: the converted element is inserted at the front (vec.insert(0, ..))
SerializeVec_serialize_element_front(self, value) ==
    LET v == to_value(value)
    IN  IF IsOk(v)
        THEN [self |-> [self EXCEPT !.vec = <<v.val>> \o @], ret |-> Ok(Unit)]
        ELSE [self |-> self, ret |-> v]

\* mutant: an element that fails to convert is skipped
SerializeVec_serialize_element_skip(self, value) ==
    LET v == to_value(value)
    IN  IF IsOk(v)
        THEN [self |-> [self EXCEPT !.vec = Append(@, v.val)], ret |-> Ok(Unit)]
        ELSE [self |-> self, ret |-> Ok(Unit)]

\* <SerializeVec as SerializeSeq>::serialize_element; SerializeTuple,
\* SerializeTupleStruct and SerializeStruct delegate to it (the key is dropped)
SerializeVec_serialize_element(self, value) ==
    LET v == to_value(value)
    IN  IF IsOk(v)
        THEN [self |-> [self EXCEPT !.vec = Append(@, v.val)], ret |-> Ok(Unit)]
        ELSE [self |-> self, ret |-> v]

SerializeVec_end(self) == Ok(Array(self.vec))

\* mutant: a slot is pushed before the field is converted and stays on failure
SerializeTupleVariant_serialize_field_slot(self, value) ==
    LET v == to_value(value)
    IN  IF IsOk(v)
        THEN [self |-> [self EXCEPT !.vec = Append(@, v.val)], ret |-> Ok(Unit)]
        ELSE [self |-> [self EXCEPT !.vec = Append(@, Nil)], ret |-> v]

SerializeTupleVariant_serialize_field(self, value) ==
    LET v == to_value(value)
    IN  IF IsOk(v)
        THEN [self |-> [self EXCEPT !.vec = Append(@, v.val)], ret |-> Ok(Unit)]
        ELSE [self |-> self, ret |-> v]

\* mutant: the fields follow the index in one flat array
SerializeTupleVariant_end_flat(self) ==
    Ok(Array(<<Value_from_u64(self.idx)>> \o self.vec))

SerializeTupleVariant_end(self) ==
    Ok(Array(<<Value_from_u64(self.idx), Array(self.vec)>>))

SerializeStructVariant_serialize_field(self, key, value) ==
    LET v == to_value(value)
    IN  IF IsOk(v)
        THEN [self |-> [self EXCEPT !.vec = Append(@, v.val)], ret |-> Ok(Unit)]
        ELSE [self |-> self, ret |-> v]

SerializeStructVariant_end(self) ==
    Ok(Array(<<Value_from_u64(self.idx), Array(self.vec)>>))

\* mutant: a key that is still pending is kept, the new key is dropped
DefaultSerializeMap_serialize_key_keep_first(self, key) ==
    LET v == to_value(key)
    IN  IF IsOk(v)
        THEN [self |-> IF is_some(self.next_key) THEN self
                       ELSE [self EXCEPT !.next_key = Some(v.val)],
              ret |-> Ok(Unit)]
        ELSE [self |-> self, ret |-> v]

DefaultSerializeMap_serialize_key(self, key) ==
    LET v == to_value(key)
    IN  IF IsOk(v)
        THEN [self |-> [self EXCEPT !.next_key = Some(v.val)], ret |-> Ok(Unit)]
        ELSE [self |-> self, ret |-> v]

\* mutant: a pair whose key is already present overwrites that pair
DefaultSerializeMap_serialize_value_dedup(self, value) ==
    IF is_none(self.next_key)
    THEN [self |-> self,
          ret |-> Panic("serialize_value called before serialize_key")]
    ELSE LET key == unwrap(self.next_key)
             taken == [self EXCEPT !.next_key = None]
             v == to_value(value)
             same == {i \in 1..Len(self.map) : self.map[i][1] = key}
         IN  IF ~IsOk(v) THEN [self |-> taken, ret |-> v]
             ELSE IF same = {}
             THEN [self |-> [taken EXCEPT !.map = Append(@, <<key, v.val>>)],
                   ret |-> Ok(Unit)]
             ELSE [self |-> [taken EXCEPT !.map =
                                [i \in 1..Len(@) |-> IF i \in same THEN <<key, v.val>> ELSE @[i]]],
                   ret |-> Ok(Unit)]

\* mutant: the value is converted before the key is taken, so a value that
\* fails leaves the key pending
DefaultSerializeMap_serialize_value_convert_first(self, value) ==
    IF is_none(self.next_key)
    THEN [self |-> self,
          ret |-> Panic("serialize_value called before serialize_key")]
    ELSE LET key == unwrap(self.next_key)
             taken == [self EXCEPT !.next_key = None]
             v == to_value(value)
         IN  IF IsOk(v)
             THEN [self |-> [taken EXCEPT !.map = Append(@, <<key, v.val>>)],
                   ret |-> Ok(Unit)]
             ELSE [self |-> self, ret |-> v]

\* mutant: a missing key is reported as an ordinary error
DefaultSerializeMap_serialize_value_err(self, value) ==
    IF is_none(self.next_key)
    THEN [self |-> self,
          ret |-> Error_custom("serialize_value called before serialize_key")]
    ELSE LET key == unwrap(self.next_key)
             taken == [self EXCEPT !.next_key = None]
             v == to_value(value)
         IN  IF IsOk(v)
             THEN [self |-> [taken EXCEPT !.map = Append(@, <<key, v.val>>)],
                   ret |-> Ok(Unit)]
             ELSE [self |-> taken, ret |-> v]

\* next_key.take() leaves None behind before the value is converted
DefaultSerializeMap_serialize_value(self, value) ==
    IF is_none(self.next_key)
    THEN [self |-> self,
          ret |-> Panic("serialize_value called before serialize_key")]
    ELSE LET key == unwrap(self.next_key)
             taken == [self EXCEPT !.next_key = None]
             v == to_value(value)
         IN  IF IsOk(v)
             THEN [self |-> [taken EXCEPT !.map = Append(@, <<key, v.val>>)],
                   ret |-> Ok(Unit)]
             ELSE [self |-> taken, ret |-> v]

DefaultSerializeMap_end(self) == Ok(Map(self.map))

----------------------------------------------------------------------------
(* A well-behaved producer of a composite: it issues its builder calls in  *)
(* order, returns the first failure at once (the `?` of its serialize) and *)
(* otherwise finishes with end().                                          *)

Call(op, value) == [op |-> op, value |-> value]
ElementCalls(elems) == [i \in 1..Len(elems) |-> Call("serialize_element", elems[i])]
TupleFieldCalls(elems) == [i \in 1..Len(elems) |-> Call("serialize_field", elems[i])]
FieldCalls(fields) ==
    [i \in 1..Len(fields) |->
        [op |-> "serialize_field", key |-> fields[i].key, value |-> fields[i].value]]

BuilderCall(kind, self, c) ==
    CASE kind = "SerializeVec" -> SerializeVec_serialize_element(self, c.value)
      [] kind = "SerializeTupleVariant" -> SerializeTupleVariant_serialize_field(self, c.value)
      [] kind = "SerializeStructVariant" ->
            SerializeStructVariant_serialize_field(self, c.key, c.value)
      [] kind = "DefaultSerializeMap" ->
            IF c.op = "serialize_key"
            THEN DefaultSerializeMap_serialize_key(self, c.value)
            ELSE DefaultSerializeMap_serialize_value(self, c.value)
      [] kind = "ExtSerializer" -> ExtSerializer_serialize_element(self, c.value)

BuilderEnd(kind, self) ==
    CASE kind = "SerializeVec" -> SerializeVec_end(self)
      [] kind = "SerializeTupleVariant" -> SerializeTupleVariant_end(self)
      [] kind = "SerializeStructVariant" -> SerializeStructVariant_end(self)
      [] kind = "DefaultSerializeMap" -> DefaultSerializeMap_end(self)
      [] kind = "ExtSerializer" -> ExtSerializer_end(self)

RECURSIVE Drive(_, _, _)
Drive(kind, self, calls) ==
    IF Len(calls) = 0
    THEN [self |-> self, ret |-> BuilderEnd(kind, self)]
    ELSE LET s == BuilderCall(kind, self, Head(calls))
         IN  IF IsOk(s.ret) THEN Drive(kind, s.self, Tail(calls)) ELSE s

\* value.serialize(&mut ext_se): the one call the wrapped field makes
Serialize_ExtSerializer(value, self) ==
    CASE value.call = "serialize_tuple" ->
            Drive("ExtSerializer", ExtSerializer_serialize_tuple(self, value.len).self,
                  ElementCalls(value.elems))
      [] value.call = "Error::custom" -> [self |-> self, ret |-> Error_custom("custom")]
      [] OTHER -> ExtSerializer_serialize_other(self)

----------------------------------------------------------------------------
(* impl ser::Serializer for Serializer: the calls that convert a field *)

\* mutant: a plain wrapper is kept as a one-element array
Serializer_serialize_newtype_struct_boxed(name, value) ==
    IF name = MSGPACK_EXT_STRUCT_NAME
    THEN LET s == Serialize_ExtSerializer(value, ExtSerializer_new)
         IN  IF IsOk(s.ret) THEN ExtSerializer_value(s.self) ELSE s.ret
    ELSE LET v == to_value(value)
         IN  IF IsOk(v) THEN Ok(Array(<<v.val>>)) ELSE v

\* mutant: the sentinel comparison is missing, every wrapper is transparent
Serializer_serialize_newtype_struct_plain(name, value) == to_value(value)

\* mutant: every wrapper name starts an extension capture
Serializer_serialize_newtype_struct_any_name(name, value) ==
    LET s == Serialize_ExtSerializer(value, ExtSerializer_new)
    IN  IF IsOk(s.ret) THEN ExtSerializer_value(s.self) ELSE s.ret

Serializer_serialize_newtype_struct(name, value) ==
    IF name = MSGPACK_EXT_STRUCT_NAME
    THEN LET s == Serialize_ExtSerializer(value, ExtSerializer_new)
         IN  IF IsOk(s.ret) THEN ExtSerializer_value(s.self) ELSE s.ret
    ELSE to_value(value)

\* mutant: the sentinel name is honoured on the enum path too
Serializer_serialize_newtype_variant_sentinel(name, idx, variant, value) ==
    IF name = MSGPACK_EXT_STRUCT_NAME
    THEN Serializer_serialize_newtype_struct(name, value)
    ELSE LET v == to_value(value)
         IN  IF IsOk(v)
             THEN Ok(Array(<<Value_from_u64(idx), Array(<<v.val>>)>>))
             ELSE v

Serializer_serialize_newtype_variant(name, idx, variant, value) ==
    LET v == to_value(value)
    IN  IF IsOk(v)
        THEN Ok(Array(<<Value_from_u64(idx), Array(<<v.val>>)>>))
        ELSE v

\* mutant: a present optional is kept as a one-element array
Serializer_serialize_some_boxed(value) ==
    LET v == to_value(value)
    IN  IF IsOk(v) THEN Ok(Array(<<v.val>>)) ELSE v

Serializer_serialize_some(value) == to_value(value)

\* to_value(value) = value.serialize(Serializer)
to_value(value) ==
    CASE value.call = "serialize_bool" -> Serializer_serialize_bool(value.b)
      [] value.call = "serialize_i8" -> Serializer_serialize_i8(value.n)
      [] value.call = "serialize_i16" -> Serializer_serialize_i16(value.n)
      [] value.call = "serialize_i32" -> Serializer_serialize_i32(value.n)
      [] value.call = "serialize_i64" -> Serializer_serialize_i64(value.n)
      [] value.call = "serialize_u8" -> Serializer_serialize_u8(value.n)
      [] value.call = "serialize_u16" -> Serializer_serialize_u16(value.n)
      [] value.call = "serialize_u32" -> Serializer_serialize_u32(value.n)
      [] value.call = "serialize_u64" -> Serializer_serialize_u64(value.n)
      [] value.call = "serialize_f32" -> Serializer_serialize_f32(value.f)
      [] value.call = "serialize_f64" -> Serializer_serialize_f64(value.f)
      [] value.call = "serialize_char" -> Serializer_serialize_char(value.c)
      [] value.call = "serialize_str" -> Serializer_serialize_str(value.s)
      [] value.call = "serialize_bytes" -> Serializer_serialize_bytes(value.bytes)
      [] value.call = "serialize_unit" -> Serializer_serialize_unit
      [] value.call = "serialize_none" -> Serializer_serialize_none
      [] value.call = "serialize_unit_struct" -> Serializer_serialize_unit_struct(value.name)
      [] value.call = "serialize_unit_variant" ->
            Serializer_serialize_unit_variant(value.name, value.idx, value.variant)
      [] value.call = "serialize_some" -> Serializer_serialize_some(value.value)
      [] value.call = "serialize_newtype_struct" ->
            Serializer_serialize_newtype_struct(value.name, value.value)
      [] value.call = "serialize_newtype_variant" ->
            Serializer_serialize_newtype_variant(value.name, value.idx, value.variant,
                                                 value.value)
      [] value.call = "Value::serialize" -> to_value(Value_serialize(value.node))
      [] value.call = "serialize_seq" ->
            Drive("SerializeVec", Serializer_serialize_seq(value.len_opt).val,
                  ElementCalls(value.elems)).ret
      [] value.call = "serialize_tuple" ->
            Drive("SerializeVec", Serializer_serialize_tuple(value.len).val,
                  ElementCalls(value.elems)).ret
      [] value.call = "serialize_tuple_struct" ->
            Drive("SerializeVec", Serializer_serialize_tuple_struct(value.name, value.len).val,
                  TupleFieldCalls(value.elems)).ret
      [] value.call = "serialize_struct" ->
            Drive("SerializeVec", Serializer_serialize_struct(value.name, value.len).val,
                  FieldCalls(value.fields)).ret
      [] value.call = "serialize_tuple_variant" ->
            Drive("SerializeTupleVariant",
                  Serializer_serialize_tuple_variant(value.name, value.idx, value.variant,
                                                     value.len).val,
                  TupleFieldCalls(value.elems)).ret
      [] value.call = "serialize_struct_variant" ->
            Drive("SerializeStructVariant",
                  Serializer_serialize_struct_variant(value.name, value.idx, value.variant,
                                                      value.len).val,
                  FieldCalls(value.fields)).ret
      [] value.call = "serialize_map" ->
            Drive("DefaultSerializeMap", Serializer_serialize_map(value.len_opt).val,
                  value.ops).ret
      [] value.call = "Error::custom" -> Error_custom("custom")

----------------------------------------------------------------------------
(* The inputs the model draws from *)

SeqsUpTo(S, n) == UNION {[1..k -> S] : k \in 0..n}

I8 == I8_MIN..I8_MAX
Names == {MSGPACK_EXT_STRUCT_NAME, "X"}
Idxs == {0, 3}
Lens == {0, 2}
LenOpts == {None, Some(2)}
Payloads == {<<>>, <<1, 2, 3>>, <<255, 0>>}
\* the texts "a" and "b" as code points
TextA == <<97>>
TextB == <<98>>

\* the sentinel-named wrapper around a (tag, bytes) tuple, and one without bytes
V_ext(tag, bytes) ==
    V_newtype_struct(MSGPACK_EXT_STRUCT_NAME, V_tuple(2, <<V_i8(tag), V_bytes(bytes)>>))
V_ext_rev(tag, bytes) ==
    V_newtype_struct(MSGPACK_EXT_STRUCT_NAME, V_tuple(2, <<V_bytes(bytes), V_i8(tag)>>))
V_ext_tag_only(tag) ==
    V_newtype_struct(MSGPACK_EXT_STRUCT_NAME, V_tuple(1, <<V_i8(tag)>>))

\* one producer for every call of the Serializer trait
AllKinds ==
    { V_bool(TRUE), V_i8(5), V_int("serialize_i16", -300), V_int("serialize_i32", 70000),
      V_int("serialize_i64", -1), V_int("serialize_u8", 255), V_int("serialize_u16", 256),
      V_int("serialize_u32", 7), V_int("serialize_u64", 0), V_f32("1.5"), V_f64("2.5"),
      V_char(97), V_str(TextA), V_bytes(<<1, 2, 3>>), V_unit, V_none,
      V_unit_struct("X"), V_unit_variant("E", 3, "V"), V_some(V_i8(5)),
      V_newtype_struct("X", V_i8(5)), V_newtype_variant("E", 3, "V", V_int("serialize_u8", 7)),
      V_seq(Some(2), <<V_i8(5), V_bytes(<<1, 2, 3>>)>>),
      V_tuple(2, <<V_i8(5), V_bytes(<<1, 2, 3>>)>>),
      V_tuple_struct("X", 2, <<V_i8(5), V_bytes(<<1, 2, 3>>)>>),
      V_struct("X", 1, <<Field("a", V_i8(5))>>),
      V_tuple_variant("E", 3, "V", 1, <<V_i8(5)>>),
      V_struct_variant("E", 3, "V", 1, <<Field("a", V_i8(5))>>),
      V_map(Some(1), Entry(V_str(TextA), V_i8(5))) }

\* elements supplied to an open extension tuple
ExtElems ==
    {V_i8(t) : t \in {-1, 5}} \cup {V_bytes(b) : b \in {<<>>, <<1, 2, 3>>}}
        \cup {V_bool(TRUE), V_custom_error}

\* elements and fields supplied to the sequence and variant builders
Elems ==
    { V_str(TextA), V_int("serialize_u8", 7), V_ext(5, <<1, 2, 3>>), V_ext_tag_only(5),
      V_seq(None, <<V_none>>) }

\* keys and values supplied to the map builder
MapKeys == {V_str(TextA), V_str(TextB), V_custom_error}
MapValues == {V_int("serialize_u8", 1), V_int("serialize_u8", 2), V_ext_tag_only(5)}

\* tuples a sentinel-named wrapper may hold
ExtTuples ==
    {V_tuple(len, es) : len \in {2}, es \in SeqsUpTo(ExtElems, MaxElems)}
        \cup {V_tuple(Len(es), es) : es \in SeqsUpTo(ExtElems, MaxElems)}
        \cup {V_tuple(2, <<e>>) : e \in AllKinds}
        \cup {V_tuple(2, <<V_i8(5), e>>) : e \in AllKinds}
        \cup {V_tuple(2, <<V_bytes(<<1, 2, 3>>), e>>) : e \in AllKinds}

Wrapped ==
    AllKinds \cup ExtTuples
        \cup {V_custom_error, V_ext(5, <<1, 2, 3>>), V_ext_tag_only(5)}

\* whole producers converted in one to_value call
\* value-tree nodes: the leaves, and the trees of a given depth over them
Leaves ==
    { Nil, Boolean(TRUE), Integer("PosInt", 0), Integer("PosInt", 255),
      Integer("NegInt", -1), F32("1.5"), F64("2.5"), String(TextA), StringRaw(<<255>>),
      Binary(<<1, 2, 3>>), Ext(-1, <<>>), Ext(5, <<1, 2, 3>>) }
MapKeyNodes == {String(TextA), Integer("PosInt", 0), StringRaw(<<255>>)}

RECURSIVE ValuesOfDepth(_)
ValuesOfDepth(d) ==
    IF d = 0 THEN Leaves
    ELSE LET sub == ValuesOfDepth(d - 1)
             \* the deepest trees so far are the ones nested once more
             top == IF d = 1 THEN Leaves ELSE sub \ ValuesOfDepth(d - 2)
         IN  sub \cup {Array(<<x>>) : x \in top}
                 \cup {Map(<< <<k, x>> >>) : k \in MapKeyNodes, x \in top}
                 \cup (IF d = 1
                       THEN {Array(<<>>), Map(<<>>)}
                               \cup {Array(<<x, y>>) : x \in Leaves, y \in Leaves}
                       ELSE {})

Values == ValuesOfDepth(MaxDepth)
ValueInputs == {V_value(v) : v \in Values}

\* every composite shape over the same elements, with a declared length of 2
Composites ==
    UNION { { V_seq(None, es), V_seq(Some(2), es), V_tuple(2, es), V_tuple_struct("X", 2, es),
              V_struct("X", 2, [i \in 1..Len(es) |-> Field("a", es[i])]),
              V_struct("X", 2, [i \in 1..Len(es) |-> Field("b", es[i])]),
              V_tuple_variant("E", 3, "V", 2, es),
              V_struct_variant("E", 3, "V", 2, [i \in 1..Len(es) |-> Field("a", es[i])]) } :
            es \in SeqsUpTo(Elems, MaxElems) }

\* integers of every width: the ends of each range and the values next to
\* the narrower width's ends (64-bit ones within the range of the model's integers)
I32_MAX == 2147483647
SignedInputs ==
    {V_int("serialize_i8", n) : n \in I8}
        \cup {V_int("serialize_i16", n) : n \in {-32768, -129, -128, -1, 0, 127, 128, 32767}}
        \cup {V_int(c, n) : c \in {"serialize_i32", "serialize_i64"},
                            n \in {-I32_MAX - 1, -32769, -32768, -129, -1, 0, 128, 32768,
                                   I32_MAX}}
UnsignedInputs ==
    {V_int("serialize_u8", n) : n \in 0..255}
        \cup {V_int("serialize_u16", n) : n \in {0, 127, 128, 255, 256, 32767, 32768, 65535}}
        \cup {V_int(c, n) : c \in {"serialize_u32", "serialize_u64"},
                            n \in {0, 255, 256, 65535, 65536, I32_MAX}}

\* texts (as code points), characters and byte strings; some of the byte
\* strings spell a valid text
TextInputs ==
    {V_str(t) : t \in {<<>>, TextA, TextA \o TextB, <<233>>, <<8364, 97>>}}
        \cup {V_char(c) : c \in {0, 97, 233, 8364}}
        \cup {V_bytes(b) : b \in {<<>>, TextA, TextA \o TextB, <<195, 169>>, <<255>>,
                                  <<255, 0>>}}

Inputs ==
    Wrapped
        \cup TextInputs
        \cup SignedInputs \cup UnsignedInputs
        \cup Composites
        \cup ValueInputs
        \cup {V_map(Some(2), Entry(k1, v1) \o Entry(k2, v2)) :
                    k1 \in MapKeys, v1 \in MapValues, k2 \in MapKeys, v2 \in MapValues}
        \cup {V_ext(t, b) : t \in I8, b \in Payloads}
        \cup {V_ext_rev(t, b) : t \in I8, b \in Payloads}
        \cup {V_newtype_struct(n, v) : n \in Names, v \in Wrapped}
        \cup {V_newtype_variant(n, i, "V", v) : n \in Names, i \in Idxs, v \in Wrapped}
        \cup {V_some(v) : v \in Wrapped}
        \cup {V_unit_variant(n, i, "V") : n \in Names, i \in Idxs}
        \cup {V_unit_struct(n) : n \in Names}

----------------------------------------------------------------------------
(* The state machine: one top-level to_value call *)

Pending == [k |-> "Pending"]

Init ==
    /\ pc = "Serializer"
    /\ input = [call |-> "none"]
    /\ se = [unused |-> TRUE]
    /\ ret = Ok(Unit)
    /\ log = <<>>
    /\ result = Pending
    /\ debug_assertions \in BOOLEAN

\* to_value(value) for a producer that follows the protocol
ToValue ==
    /\ pc = "Serializer"
    /\ \E value \in Inputs :
        /\ input' = value
        /\ result' = to_value(value)
    /\ pc' = "returned"
    /\ UNCHANGED <<se, ret, log, debug_assertions>>

\* the producer's first call opens a builder
Open(kind, call, builder) ==
    /\ pc' = kind
    /\ input' = call
    /\ se' = builder
    /\ UNCHANGED <<ret, log, result, debug_assertions>>

SerializeSeq ==
    /\ pc = "Serializer"
    /\ \E len_opt \in LenOpts :
        Open("SerializeVec", [call |-> "serialize_seq", len_opt |-> len_opt],
             Serializer_serialize_seq(len_opt).val)

SerializeTuple ==
    /\ pc = "Serializer"
    /\ \E len \in Lens :
        Open("SerializeVec", [call |-> "serialize_tuple", len |-> len],
             Serializer_serialize_tuple(len).val)

SerializeTupleStruct ==
    /\ pc = "Serializer"
    /\ \E name \in {"X"}, len \in Lens :
        Open("SerializeVec",
             [call |-> "serialize_tuple_struct", name |-> name, len |-> len],
             Serializer_serialize_tuple_struct(name, len).val)

SerializeStruct ==
    /\ pc = "Serializer"
    /\ \E name \in {"X"}, len \in Lens :
        Open("SerializeVec", [call |-> "serialize_struct", name |-> name, len |-> len],
             Serializer_serialize_struct(name, len).val)

SerializeTupleVariant ==
    /\ pc = "Serializer"
    /\ \E name \in Names, idx \in Idxs, variant \in {"V"}, len \in {2} :
        Open("SerializeTupleVariant",
             [call |-> "serialize_tuple_variant", name |-> name, idx |-> idx,
              variant |-> variant, len |-> len],
             Serializer_serialize_tuple_variant(name, idx, variant, len).val)

SerializeStructVariant ==
    /\ pc = "Serializer"
    /\ \E name \in Names, idx \in Idxs, variant \in {"V"}, len \in {2} :
        Open("SerializeStructVariant",
             [call |-> "serialize_struct_variant", name |-> name, idx |-> idx,
              variant |-> variant, len |-> len],
             Serializer_serialize_struct_variant(name, idx, variant, len).val)

SerializeMap ==
    /\ pc = "Serializer"
    /\ \E len_opt \in LenOpts :
        Open("DefaultSerializeMap", [call |-> "serialize_map", len_opt |-> len_opt],
             Serializer_serialize_map(len_opt).val)

\* serialize_newtype_struct with the sentinel name: ext_se = ExtSerializer::new()
SerializeNewtypeStructExt ==
    /\ pc = "Serializer"
    /\ Open("serialize_newtype_struct",
            [call |-> "serialize_newtype_struct", name |-> MSGPACK_EXT_STRUCT_NAME],
            ExtSerializer_new)

\* a builder call returns to the producer; a panic unwinds out of to_value
Returned(c, s) ==
    /\ se' = s.self
    /\ ret' = s.ret
    /\ log' = Append(log, [call |-> c, ret |-> s.ret])
    /\ IF IsPanic(s.ret)
       THEN pc' = "returned" /\ result' = s.ret
       ELSE UNCHANGED <<pc, result>>
    /\ UNCHANGED <<input, debug_assertions>>

\* serialize_element on a seq or tuple, serialize_field on a tuple struct or struct
VecSerializeElement ==
    /\ pc = "SerializeVec"
    /\ Len(log) < MaxElems
    /\ \E value \in Elems :
        LET c == CASE input.call \in {"serialize_seq", "serialize_tuple"} ->
                        Call("serialize_element", value)
                   [] input.call = "serialize_tuple_struct" ->
                        Call("serialize_field", value)
                   [] input.call = "serialize_struct" ->
                        [op |-> "serialize_field", key |-> "a", value |-> value]
        IN  Returned(c, BuilderCall("SerializeVec", se, c))

TupleVariantSerializeField ==
    /\ pc = "SerializeTupleVariant"
    /\ Len(log) < MaxElems
    /\ \E value \in Elems :
        Returned(Call("serialize_field", value),
                 SerializeTupleVariant_serialize_field(se, value))

StructVariantSerializeField ==
    /\ pc = "SerializeStructVariant"
    /\ Len(log) < MaxElems
    /\ \E key \in {"a"}, value \in Elems :
        Returned([op |-> "serialize_field", key |-> key, value |-> value],
                 SerializeStructVariant_serialize_field(se, key, value))

MapSerializeKey ==
    /\ pc = "DefaultSerializeMap"
    /\ Len(log) < MaxMapCalls
    /\ \E key \in MapKeys :
        Returned(Call("serialize_key", key), DefaultSerializeMap_serialize_key(se, key))

MapSerializeValue ==
    /\ pc = "DefaultSerializeMap"
    /\ Len(log) < MaxMapCalls
    /\ \E value \in MapValues :
        Returned(Call("serialize_value", value),
                 DefaultSerializeMap_serialize_value(se, value))

\* stage 1: the wrapped field opens the tuple
ExtSerializeTuple ==
    /\ pc = "serialize_newtype_struct"
    /\ \E len \in Lens \cup {3} :
        /\ se' = ExtSerializer_serialize_tuple(se, len).self
        /\ input' = [call |-> input.call, name |-> input.name, len |-> len]
    /\ pc' = "ExtSerializer"
    /\ UNCHANGED <<ret, log, result, debug_assertions>>

\* stage 1: the wrapped field makes any other call (or fails by itself);
\* the error leaves serialize_newtype_struct through `?`
ExtSerializeOther ==
    /\ pc = "serialize_newtype_struct"
    /\ \E value \in (AllKinds \cup {V_custom_error}) :
        /\ value.call # "serialize_tuple"
        /\ LET s == Serialize_ExtSerializer(value, se)
           IN  /\ se' = s.self
               /\ ret' = s.ret
               /\ result' = s.ret
               /\ log' = Append(log, [call |-> Call("serialize", value), ret |-> s.ret])
    /\ pc' = "returned"
    /\ UNCHANGED <<input, debug_assertions>>

\* stage 2: an element of the open tuple
ExtSerializeElement ==
    /\ pc = "ExtSerializer"
    /\ Len(log) < MaxElems
    /\ \E value \in ExtElems :
        Returned(Call("serialize_element", value),
                 ExtSerializer_serialize_element(se, value))

Builders ==
    {"SerializeVec", "SerializeTupleVariant", "SerializeStructVariant",
     "DefaultSerializeMap", "ExtSerializer"}

\* the producer returns the error of its last builder call (`?`)
ReturnErr ==
    /\ pc \in Builders
    /\ IsErr(ret)
    /\ result' = ret
    /\ pc' = "returned"
    /\ UNCHANGED <<input, se, ret, log, debug_assertions>>

\* end() of the open builder; for the extension tuple, end() returns Ok(())
\* and serialize_newtype_struct goes on to ext_se.value()
End ==
    /\ pc \in Builders
    /\ LET r == BuilderEnd(pc, se)
       IN  /\ log' = Append(log, [call |-> [op |-> "end"], ret |-> r])
           /\ result' = IF pc = "ExtSerializer" /\ IsOk(r)
                        THEN ExtSerializer_value(se)
                        ELSE r
    /\ pc' = "returned"
    /\ UNCHANGED <<input, se, ret, debug_assertions>>

Next ==
    \/ ToValue
    \/ SerializeSeq
    \/ SerializeTuple
    \/ SerializeTupleStruct
    \/ SerializeStruct
    \/ SerializeTupleVariant
    \/ SerializeStructVariant
    \/ SerializeMap
    \/ SerializeNewtypeStructExt
    \/ VecSerializeElement
    \/ TupleVariantSerializeField
    \/ StructVariantSerializeField
    \/ MapSerializeKey
    \/ MapSerializeValue
    \/ ExtSerializeTuple
    \/ ExtSerializeOther
    \/ ExtSerializeElement
    \/ ReturnErr
    \/ End

Spec == Init /\ [][Next]_vars

----------------------------------------------------------------------------
(* Vocabulary of the properties *)

\* the producer was run whole by ToValue (it follows the protocol)
Whole == pc = "returned" /\ log = <<>> /\ input \in Inputs

\* the producer drives the extension capture call by call
StepExt == input.call = "serialize_newtype_struct" /\ "value" \notin DOMAIN input

\* the builder calls made before end()
Supplied(l) == SelectSeq(l, LAMBDA e : e.call.op # "end")
Closed == Len(log) > 0 /\ log[Len(log)].call.op = "end"

\* the calls of l[1..i-1] that supplied a producer making `call`
Earlier(l, i, call) == {j \in 1..(i - 1) : l[j].call.value.call = call}
\* the positions of l whose producer makes `call` and was accepted
Accepted(l, call) ==
    {j \in 1..Len(l) : l[j].call.op # "end" /\ l[j].call.value.call = call /\ IsOk(l[j].ret)}

\* a whole sentinel-named wrapper around a tuple
IsExtTuple(v) ==
    /\ v.call = "serialize_newtype_struct"
    /\ v.name = MSGPACK_EXT_STRUCT_NAME
    /\ "value" \in DOMAIN v
    /\ v.value.call = "serialize_tuple"

\* the elements of a tuple that the extension field serializer rejects
Rejected(es) ==
    {i \in 1..Len(es) :
        \/ es[i].call \notin {"serialize_i8", "serialize_bytes"}
        \/ \E j \in 1..(i - 1) : es[j].call = es[i].call}
Min(S) == CHOOSE x \in S : \A y \in S : x <= y

----------------------------------------------------------------------------
(* C1: for every i8 tag and every payload, the sentinel-named wrapper around *)
(* a tuple that supplies the tag as an i8 and then the payload as bytes      *)
(* converts to Ok(Ext(tag, payload)), tag and payload exactly as supplied.   *)

IsTagThenBytes(es) ==
    Len(es) = 2 /\ es[1].call = "serialize_i8" /\ es[2].call = "serialize_bytes"

C1_ExtRoundTrip ==
    /\ (Whole /\ IsExtTuple(input) /\ IsTagThenBytes(input.value.elems))
        => result = Ok(Ext(input.value.elems[1].n, input.value.elems[2].bytes))
    /\ (StepExt /\ Closed /\ Len(log) = 3
            /\ log[1].call.value.call = "serialize_i8"
            /\ log[2].call.value.call = "serialize_bytes")
        => result = Ok(Ext(log[1].call.value.n, log[2].call.value.bytes))

C1_Witness ==
    /\ Whole /\ IsExtTuple(input) /\ IsTagThenBytes(input.value.elems)
    /\ input.value.elems[1].n = I8_MIN
    /\ input.value.elems[2].bytes = <<1, 2, 3>>
    /\ result = Ok(Ext(I8_MIN, <<1, 2, 3>>))

----------------------------------------------------------------------------
(* C2 as stated: serialize_newtype_variant with the sentinel name hands the  *)
(* field to the extension capture, so the result is what the sentinel-named  *)
(* wrapper gives for that field (the Ext node or the capture's error).       *)

IsSentinelVariant(v) ==
    v.call = "serialize_newtype_variant" /\ v.name = MSGPACK_EXT_STRUCT_NAME

----------------------------------------------------------------------------
(* C3: the capture does not depend on the order of the two elements: bytes   *)
(* first and then the i8 gives the same Ext(tag, payload) as the i8 first.   *)

IsBytesThenTag(es) ==
    Len(es) = 2 /\ es[1].call = "serialize_bytes" /\ es[2].call = "serialize_i8"

C3_OrderIndependent ==
    /\ (Whole /\ IsExtTuple(input) /\ IsBytesThenTag(input.value.elems))
        => /\ result = Ok(Ext(input.value.elems[2].n, input.value.elems[1].bytes))
           /\ result = to_value(V_ext(input.value.elems[2].n, input.value.elems[1].bytes))
    /\ (StepExt /\ Closed /\ Len(log) = 3
            /\ log[1].call.value.call = "serialize_bytes"
            /\ log[2].call.value.call = "serialize_i8")
        => result = Ok(Ext(log[2].call.value.n, log[1].call.value.bytes))

C3_Witness ==
    /\ StepExt /\ Closed /\ Len(log) = 3
    /\ log[1].call.value = V_bytes(<<1, 2, 3>>)
    /\ log[2].call.value = V_i8(5)
    /\ result = Ok(Ext(5, <<1, 2, 3>>))

----------------------------------------------------------------------------
(* C4: in stage 2 the i8 and the bytes are each accepted at most once: the   *)
(* first of each is accepted, a second i8 fails with "received second i8",   *)
(* and a second bytes or any other call fails with "expected i8 and bytes".  *)

Stage2Return(l, i) ==
    LET call == l[i].call.value.call
    IN  CASE call = "serialize_i8" ->
                IF Earlier(l, i, call) = {} THEN Ok(Unit) ELSE Err("received second i8")
          [] call = "serialize_bytes" ->
                IF Earlier(l, i, call) = {} THEN Ok(Unit) ELSE Err("expected i8 and bytes")
          [] call = "Error::custom" -> Err("custom")
          [] OTHER -> Err("expected i8 and bytes")

Stage2Message(es, i) ==
    CASE es[i].call = "serialize_i8" -> "received second i8"
      [] es[i].call = "Error::custom" -> "custom"
      [] OTHER -> "expected i8 and bytes"

C4_EachAcceptedOnce ==
    /\ (StepExt /\ pc \in {"ExtSerializer", "returned"})
        => \A i \in 1..Len(log) :
              log[i].call.op = "serialize_element" => log[i].ret = Stage2Return(log, i)
    /\ (Whole /\ IsExtTuple(input) /\ Rejected(input.value.elems) # {})
        => result = Err(Stage2Message(input.value.elems, Min(Rejected(input.value.elems))))

C4_Witness ==
    /\ StepExt /\ pc = "ExtSerializer" /\ Len(log) = 3
    /\ log[1].call.value.call = "serialize_i8" /\ IsOk(log[1].ret)
    /\ log[2].call.value.call = "serialize_i8" /\ log[2].ret = Err("received second i8")
    /\ log[3].call.value.call = "serialize_bool" /\ log[3].ret = Err("expected i8 and bytes")

----------------------------------------------------------------------------
(* C5: when the extension tuple is closed while the tag, the payload or both *)
(* are missing, the conversion fails with "expected i8 and bytes" and yields *)
(* no Ext node.                                                              *)

C5_IncompleteCaptureFails ==
    /\ (StepExt /\ Closed
            /\ (is_none(unwrap(se.fields_se).tag) \/ is_none(unwrap(se.fields_se).binary)))
        => result = Err("expected i8 and bytes")
    /\ (StepExt /\ Closed
            /\ (Accepted(log, "serialize_i8") = {} \/ Accepted(log, "serialize_bytes") = {}))
        => result = Err("expected i8 and bytes")
    /\ (Whole /\ IsExtTuple(input) /\ Rejected(input.value.elems) = {}
            /\ Len(input.value.elems) < 2)
        => result = Err("expected i8 and bytes")

C5_Witness ==
    /\ StepExt /\ Closed /\ Len(log) = 2
    /\ log[1].call.value = V_i8(5) /\ IsOk(log[1].ret)
    /\ se.fields_se = Some([tag |-> Some(5), binary |-> None])
    /\ result = Err("expected i8 and bytes")

----------------------------------------------------------------------------
(* C6: an extension tuple that supplies three or more elements never ends   *)
(* in an Ext node, whatever the kinds and order of the elements and whatever *)
(* length the tuple declared.                                                *)

C6_ThreeElementsNeverExt ==
    /\ (StepExt /\ pc = "returned" /\ Len(Supplied(log)) >= 3) => ~IsOk(result)
    /\ (Whole /\ IsExtTuple(input) /\ Len(input.value.elems) >= 3) => ~IsOk(result)

(* What the code does guarantee: of any three serialize_element calls at     *)
(* least one returns an error, so a tuple that returns the first error it    *)
(* gets fails.  The error is not kept: serialize_tuple does not check len    *)
(* and end() returns Ok(()) after a rejected element.                        *)

\* the producer made no call after an error and returned the error it got
Propagated ==
    \A i \in 1..Len(log) : IsErr(log[i].ret) => (i = Len(log) /\ result = log[i].ret)

ThirdElementRejected ==
    /\ (StepExt /\ Len(Supplied(log)) >= 3)
        => \E i \in 1..3 : IsErr(log[i].ret)
    /\ (StepExt /\ pc = "returned" /\ Propagated /\ Len(Supplied(log)) >= 3)
        => (IsErr(result) /\ result = log[3].ret)
    /\ (Whole /\ IsExtTuple(input) /\ Len(input.value.elems) >= 3) => IsErr(result)

\* tag, payload, a rejected third element whose error is dropped, then end()
ThirdElementDropped ==
    /\ StepExt /\ pc = "returned" /\ Closed /\ Len(Supplied(log)) = 3
    /\ input.len = 2
    /\ log[1].call.value = V_i8(5) /\ IsOk(log[1].ret)
    /\ log[2].call.value = V_bytes(<<1, 2, 3>>) /\ IsOk(log[2].ret)
    /\ log[3].call.value = V_bool(TRUE) /\ log[3].ret = Err("expected i8 and bytes")
    /\ result = Ok(Ext(5, <<1, 2, 3>>))

----------------------------------------------------------------------------
(* C7: in stage 1 only serialize_tuple is accepted: a sentinel-named wrapper *)
(* whose field makes any other call fails with "expected tuple", and a       *)
(* sentinel-named wrapper is never converted as an ordinary wrapper (its     *)
(* result is an Ext node or an error).                                       *)

C7_Stage1ExpectsTuple ==
    /\ (Whole /\ input.call = "serialize_newtype_struct"
            /\ input.name = MSGPACK_EXT_STRUCT_NAME
            /\ input.value.call \notin {"serialize_tuple", "Error::custom"})
        => result = Err("expected tuple")
    /\ (StepExt /\ pc = "returned" /\ Len(log) > 0 /\ log[1].call.op = "serialize"
            /\ log[1].call.value.call # "Error::custom")
        => (result = Err("expected tuple") /\ is_none(se.fields_se))
    /\ (Whole /\ input.call = "serialize_newtype_struct"
            /\ input.name = MSGPACK_EXT_STRUCT_NAME /\ IsOk(result))
        => result.val.t = "Ext"
    /\ (StepExt /\ pc = "returned" /\ IsOk(result)) => result.val.t = "Ext"

C7_Witness ==
    /\ Whole
    /\ input = V_newtype_struct(MSGPACK_EXT_STRUCT_NAME,
                                V_seq(Some(2), <<V_i8(5), V_bytes(<<1, 2, 3>>)>>))
    /\ result = Err("expected tuple")

----------------------------------------------------------------------------
(* C8: an Ext node comes only from an extension capture that accepted one    *)
(* tag and one payload: a conversion without a sentinel-named wrapper has no *)
(* Ext node anywhere in its result, and every Ext(t, p) of a result is the   *)
(* tag and payload of a sentinel-named wrapper of the input.                 *)

RECURSIVE ExtNodes(_)
ExtNodes(v) ==
    CASE v.t = "Ext" -> {v}
      [] v.t = "Array" -> UNION {ExtNodes(v.arr[i]) : i \in 1..Len(v.arr)}
      [] v.t = "Map" ->
            UNION {ExtNodes(v.pairs[i][1]) \cup ExtNodes(v.pairs[i][2]) :
                        i \in 1..Len(v.pairs)}
      [] OTHER -> {}

\* the Ext nodes of the sentinel-named wrappers holding one i8 and one bytes
TupleCapture(es) ==
    LET tags == {i \in 1..Len(es) : es[i].call = "serialize_i8"}
        bins == {i \in 1..Len(es) : es[i].call = "serialize_bytes"}
    IN  IF Cardinality(tags) = 1 /\ Cardinality(bins) = 1
        THEN {Ext(es[i].n, es[j].bytes) : i \in tags, j \in bins}
        ELSE {}

RECURSIVE Captures(_)
Captures(v) ==
    CASE v.call = "serialize_newtype_struct" ->
            IF v.name = MSGPACK_EXT_STRUCT_NAME
            THEN IF v.value.call = "serialize_tuple" THEN TupleCapture(v.value.elems) ELSE {}
            ELSE Captures(v.value)
      [] v.call \in {"serialize_some", "serialize_newtype_variant"} -> Captures(v.value)
      [] v.call \in {"serialize_seq", "serialize_tuple", "serialize_tuple_struct",
                     "serialize_tuple_variant"} ->
            UNION {Captures(v.elems[i]) : i \in 1..Len(v.elems)}
      [] v.call \in {"serialize_struct", "serialize_struct_variant"} ->
            UNION {Captures(v.fields[i].value) : i \in 1..Len(v.fields)}
      [] v.call = "serialize_map" -> UNION {Captures(v.ops[i].value) : i \in 1..Len(v.ops)}
      [] v.call = "Value::serialize" -> Captures(Value_serialize(v.node))
      [] OTHER -> {}

\* the producer drives one of the Serializer's own builders call by call
StepBuilder ==
    pc = "returned" /\ ~Whole /\ input.call # "serialize_newtype_struct"

----------------------------------------------------------------------------
(* C9: every enum alternative converts to Array[index, Array[args]]: no      *)
(* field gives [index, []], a single field with a non-sentinel name gives    *)
(* [index, [field]], a tuple alternative gives [index, [f1, .., fn]] in call *)
(* order, and a struct alternative gives the same with the names dropped.    *)

\* the converted values of the builder calls that returned Ok, in call order
OkValues(l) ==
    LET oks == SelectSeq(l, LAMBDA e : e.call.op # "end" /\ IsOk(e.ret))
    IN  [i \in 1..Len(oks) |-> to_value(oks[i].call.value).val]

EnumNode(idx, args) == Ok(Array(<<Integer("PosInt", idx), Array(args)>>))

C9_EnumEncoding ==
    /\ (Whole /\ input.call = "serialize_unit_variant")
        => result = EnumNode(input.idx, <<>>)
    /\ (Whole /\ input.call = "serialize_newtype_variant"
            /\ input.name # MSGPACK_EXT_STRUCT_NAME /\ IsOk(to_value(input.value)))
        => result = EnumNode(input.idx, <<to_value(input.value).val>>)
    /\ (Whole /\ input.call = "serialize_tuple_variant"
            /\ \A i \in 1..Len(input.elems) : IsOk(to_value(input.elems[i])))
        => result = EnumNode(input.idx,
                             [i \in 1..Len(input.elems) |-> to_value(input.elems[i]).val])
    /\ (Whole /\ input.call = "serialize_struct_variant"
            /\ \A i \in 1..Len(input.fields) : IsOk(to_value(input.fields[i].value)))
        => result = EnumNode(input.idx,
                             [i \in 1..Len(input.fields) |->
                                 to_value(input.fields[i].value).val])
    /\ (StepBuilder /\ Closed
            /\ input.call \in {"serialize_tuple_variant", "serialize_struct_variant"})
        => result = EnumNode(input.idx, OkValues(log))

C9_Witness ==
    /\ StepBuilder /\ Closed /\ input.call = "serialize_struct_variant" /\ input.idx = 3
    /\ Len(log) = 4
    /\ log[1].call.value = V_str(TextA)
    /\ log[2].call.value = V_int("serialize_u8", 7)
    /\ log[3].call.value = V_ext(5, <<1, 2, 3>>)
    /\ result = EnumNode(3, <<String(TextA), Integer("PosInt", 7), Ext(5, <<1, 2, 3>>)>>)

----------------------------------------------------------------------------
(* C10: for alternating serialize_key / serialize_value calls the finished   *)
(* Map holds exactly the (converted key, converted value) pairs in call      *)
(* order: nothing is sorted, and pairs with a repeated key are all kept.     *)

Alternating(l) ==
    /\ Len(l) % 2 = 0
    /\ \A i \in 1..Len(l) :
          /\ l[i].call.op = (IF i % 2 = 1 THEN "serialize_key" ELSE "serialize_value")
          /\ IsOk(l[i].ret)

C10_MapKeepsCallOrder ==
    /\ (StepBuilder /\ Closed /\ input.call = "serialize_map" /\ Alternating(Supplied(log)))
        => result = Ok(Map([i \in 1..(Len(Supplied(log)) \div 2) |->
                             <<to_value(log[2 * i - 1].call.value).val,
                               to_value(log[2 * i].call.value).val>>]))
    /\ (Whole /\ input.call = "serialize_map" /\ IsOk(result))
        => /\ Len(result.val.pairs) * 2 = Len(input.ops)
           /\ \A i \in 1..Len(result.val.pairs) :
                 result.val.pairs[i] = <<to_value(input.ops[2 * i - 1].value).val,
                                         to_value(input.ops[2 * i].value).val>>

C10_Witness ==
    /\ StepBuilder /\ Closed /\ input.call = "serialize_map" /\ Alternating(Supplied(log))
    /\ result = Ok(Map(<< <<String(TextB), Integer("PosInt", 2)>>,
                          <<String(TextB), Integer("PosInt", 1)>> >>))

----------------------------------------------------------------------------
(* C11: serialize_value with no key pending panics, which is not an Err and  *)
(* ends the conversion.  It panics exactly when no key was supplied for that *)
(* value: no serialize_key has returned Ok since the builder was opened or   *)
(* since the previous serialize_value (a serialize_key that returned an      *)
(* error supplied nothing).  A producer that calls key, value, key, value,   *)
(* .. and returns the first error it gets never panics, whatever the keys    *)
(* and values.                                                               *)

\* the producer drives the map builder call by call
StepMap == input.call = "serialize_map" /\ "ops" \notin DOMAIN input

\* a serialize_key returned Ok before call i with no serialize_value since
KeyPending(l, i) ==
    \E j \in 1..(i - 1) :
        /\ l[j].call.op = "serialize_key" /\ IsOk(l[j].ret)
        /\ \A k \in (j + 1)..(i - 1) : l[k].call.op # "serialize_value"

\* key, value, key, value, ..
AlternatingOps(l) ==
    \A i \in 1..Len(l) :
        l[i].call.op = (IF i % 2 = 1 THEN "serialize_key" ELSE "serialize_value")

----------------------------------------------------------------------------
(* C12: converting any value-tree node through its own Serialize gives the   *)
(* identical tree back, variant for variant: to_value(v) = Ok(v).            *)

C12_Idempotent ==
    (Whole /\ input.call = "Value::serialize") => result = Ok(input.node)

(* C12 amended: to_value(v) = Ok(v) for every value tree that holds no       *)
(* String node in its fallback (not UTF-8) branch, which includes every tree *)
(* a conversion returns.  A fallback String serializes its bytes with        *)
(* serialize_bytes, so it comes back as a Binary node with the same bytes,   *)
(* at the top and wherever it is nested.                                     *)

RECURSIVE HasFallback(_)
HasFallback(v) ==
    CASE v.t = "String" -> ~v.utf8
      [] v.t = "Array" -> \E i \in 1..Len(v.arr) : HasFallback(v.arr[i])
      [] v.t = "Map" ->
            \E i \in 1..Len(v.pairs) : HasFallback(v.pairs[i][1]) \/ HasFallback(v.pairs[i][2])
      [] OTHER -> FALSE

\* v with every fallback String replaced by the Binary of its bytes
RECURSIVE FallbackAsBinary(_)
FallbackAsBinary(v) ==
    CASE v.t = "String" -> IF v.utf8 THEN v ELSE Binary(v.raw)
      [] v.t = "Array" -> Array([i \in 1..Len(v.arr) |-> FallbackAsBinary(v.arr[i])])
      [] v.t = "Map" ->
            Map([i \in 1..Len(v.pairs) |->
                    <<FallbackAsBinary(v.pairs[i][1]), FallbackAsBinary(v.pairs[i][2])>>])
      [] OTHER -> v

C12_IdempotentButFallback ==
    /\ (Whole /\ input.call = "Value::serialize")
          => /\ ~HasFallback(input.node) => result = Ok(input.node)
             /\ HasFallback(input.node)
                   => (result = Ok(FallbackAsBinary(input.node)) /\ result # Ok(input.node))
    /\ (pc = "returned" /\ IsOk(result))
          => (~HasFallback(result.val) /\ to_value(V_value(result.val)) = result)

C12_Witness ==
    /\ Whole
    /\ input = V_value(Map(<< <<String(TextA),
                                Array(<<Ext(5, <<1, 2, 3>>), Integer("NegInt", -1)>>)>> >>))
    /\ result = Ok(input.node)

----------------------------------------------------------------------------
(* C13: a conversion ends in a whole value tree or in an error without a     *)
(* tree; whenever a nested call (an element, field, key, value or extension  *)
(* element) returns an error, the conversion returns an error and no partly  *)
(* built composite.                                                          *)

\* a value tree, whole: every node is one of the variants, down to the leaves
RECURSIVE IsValue(_)
IsValue(v) ==
    CASE v.t \in {"Nil", "Boolean", "Integer", "F32", "F64", "String", "Binary", "Ext"} -> TRUE
      [] v.t = "Array" -> \A i \in 1..Len(v.arr) : IsValue(v.arr[i])
      [] v.t = "Map" ->
            \A i \in 1..Len(v.pairs) : IsValue(v.pairs[i][1]) /\ IsValue(v.pairs[i][2])
      [] OTHER -> FALSE

\* some builder call of the conversion returned an error
SomeCallFailed == \E i \in 1..Len(log) : IsErr(log[i].ret)

C13_AnyNestedErrorFails ==
    /\ pc = "returned"
          => \/ IsOk(result) /\ DOMAIN result = {"k", "val"} /\ IsValue(result.val)
             \/ IsErr(result) /\ DOMAIN result = {"k", "msg"}
    /\ (pc = "returned" /\ SomeCallFailed) => IsErr(result)

(* C13 amended: a conversion that returns gives a whole value tree or an     *)
(* error without a tree (the third way out is the panic of C11).  A nested   *)
(* call that fails returns the error and to_value returns it when the        *)
(* producer returns it, as `?` does: the first failing element, field, key   *)
(* or value of a composite is the result of the conversion.  The builders do *)
(* not remember a failure: a producer that ignores the error and calls end() *)
(* gets Ok with the composite of the elements that were accepted.            *)

\* the nested producers of a composite that to_value converts, in call order
Children(v) ==
    CASE v.call \in {"serialize_some", "serialize_newtype_variant"} -> <<v.value>>
      [] v.call = "serialize_newtype_struct" ->
            IF v.name = MSGPACK_EXT_STRUCT_NAME THEN <<>> ELSE <<v.value>>
      [] v.call \in {"serialize_seq", "serialize_tuple", "serialize_tuple_struct",
                     "serialize_tuple_variant"} -> v.elems
      [] v.call \in {"serialize_struct", "serialize_struct_variant"} ->
            [i \in 1..Len(v.fields) |-> v.fields[i].value]
      [] v.call = "serialize_map" -> [i \in 1..Len(v.ops) |-> v.ops[i].value]
      [] OTHER -> <<>>

FailedChildren(v) == {i \in 1..Len(Children(v)) : IsErr(to_value(Children(v)[i]))}

C13_ReturnedErrorFails ==
    /\ pc = "returned"
          => \/ IsOk(result) /\ DOMAIN result = {"k", "val"} /\ IsValue(result.val)
             \/ IsErr(result) /\ DOMAIN result = {"k", "msg"}
             \/ IsPanic(result) /\ StepMap
    /\ (Whole /\ FailedChildren(input) # {})
          => (IsErr(result)
                /\ result = to_value(Children(input)[Min(FailedChildren(input))]))
    /\ (Whole /\ IsExtTuple(input) /\ Rejected(input.value.elems) # {}) => IsErr(result)
    /\ (pc = "returned" /\ ~Whole /\ Propagated /\ SomeCallFailed)
          => (IsErr(result) /\ result = log[Len(log)].ret)
    /\ (pc = "returned" /\ ~Whole /\ Closed /\ IsOk(result) /\ input.call = "serialize_seq")
          => result.val.arr = OkValues(log)

C13_Witness ==
    /\ Whole
    /\ input = V_seq(Some(2), <<V_str(TextA), V_ext_tag_only(5), V_int("serialize_u8", 7)>>)
    /\ result = Err("expected i8 and bytes")

----------------------------------------------------------------------------
(* C14: the seq / tuple / tuple struct / struct builder ends in the Array of *)
(* the converted elements in the order supplied, for any number of elements: *)
(* the declared length is not compared with the number supplied, and a       *)
(* struct gives the same Array as the tuple of its field values, whatever    *)
(* the field names.                                                          *)

VecCalls == {"serialize_seq", "serialize_tuple", "serialize_tuple_struct", "serialize_struct"}

\* the length the open call declared (None for a seq of unknown length)
Declared(v) == IF v.call = "serialize_seq" THEN v.len_opt ELSE Some(v.len)

C14_ArrayOfElementsInOrder ==
    /\ (StepBuilder /\ Closed /\ input.call \in VecCalls)
          => result = Ok(Array(OkValues(log)))
    /\ (Whole /\ input.call \in VecCalls /\ FailedChildren(input) = {})
          => result = Ok(Array([i \in 1..Len(Children(input)) |->
                                   to_value(Children(input)[i]).val]))
    /\ (Whole /\ input.call = "serialize_struct")
          => /\ result = to_value(V_tuple(input.len, Children(input)))
             /\ result = to_value(V_struct("Y", input.len,
                                           [i \in 1..Len(input.fields) |->
                                               Field("z", input.fields[i].value)]))

C14_Witness ==
    /\ StepBuilder /\ Closed /\ input.call = "serialize_struct"
    /\ Declared(input) = Some(2) /\ Len(Supplied(log)) = 3
    /\ result = Ok(Array(<<Integer("PosInt", 7), String(TextA), Ext(5, <<1, 2, 3>>)>>))

----------------------------------------------------------------------------
(* C15: a single-field wrapper whose name is not the extension sentinel is   *)
(* transparent: its result is the result of converting its field (the same   *)
(* node or the same error), whatever the name.                               *)

C15_PlainWrapperTransparent ==
    (Whole /\ input.call = "serialize_newtype_struct"
           /\ input.name # MSGPACK_EXT_STRUCT_NAME)
        => /\ result = to_value(input.value)
           /\ result = to_value(V_newtype_struct("Y", input.value))

C15_Witness ==
    /\ Whole
    /\ input = V_newtype_struct("X", V_tuple(2, <<V_i8(5), V_bytes(<<1, 2, 3>>)>>))
    /\ result = Ok(Array(<<Integer("NegInt", 5), Binary(<<1, 2, 3>>)>>))
    /\ to_value(V_newtype_struct(MSGPACK_EXT_STRUCT_NAME, input.value))
          = Ok(Ext(5, <<1, 2, 3>>))

----------------------------------------------------------------------------
(* C16: serialize_unit_struct converts to the empty Array, never to Nil,     *)
(* whatever its name; serialize_unit and serialize_none convert to Nil.      *)

C16_UnitStructIsEmptyArray ==
    /\ (Whole /\ input.call = "serialize_unit_struct")
          => (result = Ok(Array(<<>>)) /\ result # Ok(Nil))
    /\ (Whole /\ input.call \in {"serialize_unit", "serialize_none"}) => result = Ok(Nil)
    /\ (Whole /\ input.call = "serialize_some"
              /\ input.value.call \in {"serialize_unit_struct", "serialize_unit"})
          => result = (IF input.value.call = "serialize_unit" THEN Ok(Nil) ELSE Ok(Array(<<>>)))

C16_Witness ==
    /\ Whole
    /\ input = V_unit_struct(MSGPACK_EXT_STRUCT_NAME)
    /\ result = Ok(Array(<<>>))
    /\ to_value(V_unit) = Ok(Nil) /\ to_value(V_none) = Ok(Nil)

----------------------------------------------------------------------------
(* C17: for every signed input (8, 16, 32, 64 bits) the Integer node holds   *)
(* the input's value as a signed integer, and for every unsigned input the   *)
(* input's value as an unsigned integer: sign extension and zero extension   *)
(* to 64 bits change no value (unsigned 255 stays unsigned 255, signed -1    *)
(* stays signed -1).                                                         *)

C17_IntegerKeepsValueAndSign ==
    /\ (Whole /\ input \in SignedInputs) => result = Ok(Integer("NegInt", input.n))
    /\ (Whole /\ input \in UnsignedInputs) => result = Ok(Integer("PosInt", input.n))

C17_Witness ==
    /\ Whole
    /\ input = V_int("serialize_i16", -129)
    /\ result = Ok(Integer("NegInt", -129))
    /\ to_value(V_int("serialize_u8", 255)) = Ok(Integer("PosInt", 255))
    /\ to_value(V_int("serialize_i8", -1)) = Ok(Integer("NegInt", -1))
    /\ to_value(V_int("serialize_i32", -I32_MAX - 1)) = Ok(Integer("NegInt", -I32_MAX - 1))

----------------------------------------------------------------------------
(* C18: the map builder pairs each value with the key supplied last: a       *)
(* serialize_key while a key is pending replaces that key without an error,  *)
(* a key pending at end() is dropped, and the Map holds one pair for each    *)
(* serialize_value that returned Ok, so no key without a value.              *)

\* the serialize_value calls that returned Ok, in call order
OkValueCalls(l) ==
    SelectSeq([i \in 1..Len(l) |-> i],
              LAMBDA i : l[i].call.op = "serialize_value" /\ IsOk(l[i].ret))

\* the last serialize_key before call i that returned Ok
LastKey(l, i) ==
    CHOOSE j \in 1..(i - 1) :
        /\ l[j].call.op = "serialize_key" /\ IsOk(l[j].ret)
        /\ \A k \in (j + 1)..(i - 1) : ~(l[k].call.op = "serialize_key" /\ IsOk(l[k].ret))

C18_ValuePairsWithLastKey ==
    StepMap =>
        /\ \A i \in 1..Len(log) :
              /\ log[i].call.op = "serialize_key"
                    => log[i].ret = (IF IsOk(to_value(log[i].call.value))
                                     THEN Ok(Unit) ELSE to_value(log[i].call.value))
              /\ (log[i].call.op = "serialize_value" /\ IsOk(log[i].ret))
                    => KeyPending(log, i)
        /\ Closed
              => LET vs == OkValueCalls(log)
                 IN  result = Ok(Map([n \in 1..Len(vs) |->
                                        <<to_value(log[LastKey(log, vs[n])].call.value).val,
                                          to_value(log[vs[n]].call.value).val>>]))

C18_Witness ==
    /\ StepMap /\ Closed /\ Len(log) = 5
    /\ log[1].call = Call("serialize_key", V_str(TextA)) /\ log[1].ret = Ok(Unit)
    /\ log[2].call = Call("serialize_key", V_str(TextB)) /\ log[2].ret = Ok(Unit)
    /\ log[3].call = Call("serialize_value", V_int("serialize_u8", 1))
    /\ log[4].call = Call("serialize_key", V_str(TextA)) /\ log[4].ret = Ok(Unit)
    /\ result = Ok(Map(<< <<String(TextB), Integer("PosInt", 1)>> >>))

----------------------------------------------------------------------------
(* C19: after every serialize_value that returns, with Ok or with an error,  *)
(* no key is pending: a serialize_value whose value fails to convert has     *)
(* taken the pending key and appended no pair, so a serialize_value right    *)
(* after it, with no serialize_key between, panics.                          *)

C19_ValueTakesTheKey ==
    StepMap =>
        /\ (Len(log) > 0 /\ log[Len(log)].call.op = "serialize_value"
                /\ ~IsPanic(log[Len(log)].ret))
              => is_none(se.next_key)
        /\ Len(se.map) = Len(OkValueCalls(log))
        /\ \A i \in 2..Len(log) :
              (log[i].call.op = "serialize_value" /\ log[i - 1].call.op = "serialize_value")
                  => IsPanic(log[i].ret)

C19_Witness ==
    /\ StepMap /\ pc = "returned" /\ Len(log) = 3
    /\ log[1].call = Call("serialize_key", V_str(TextA)) /\ log[1].ret = Ok(Unit)
    /\ log[2].call = Call("serialize_value", V_ext_tag_only(5))
    /\ log[2].ret = Err("expected i8 and bytes")
    /\ log[3].call.op = "serialize_value" /\ IsPanic(log[3].ret)
    /\ se = [map |-> <<>>, next_key |-> None]

----------------------------------------------------------------------------
(* C20: a failed append leaves the accumulator as it was: a failed element   *)
(* or field leaves the element list of the seq, tuple variant and struct     *)
(* variant builders unchanged, a failed key leaves the pair list and the     *)
(* pending key of the map builder unchanged, and an element rejected in      *)
(* extension stage 2 leaves the captured tag and payload unchanged.          *)

\* this step is a builder call (not end) that returned an error
FailedCall(op) ==
    /\ Len(log') = Len(log) + 1
    /\ log'[Len(log')].call.op = op
    /\ IsErr(log'[Len(log')].ret)

C20_FailedAppendKeepsAccumulator ==
    [][/\ (pc \in {"SerializeVec", "SerializeTupleVariant", "SerializeStructVariant"}
               /\ (FailedCall("serialize_element") \/ FailedCall("serialize_field")))
            => (se' = se /\ se'.vec = OkValues(log))
       /\ (pc = "DefaultSerializeMap" /\ FailedCall("serialize_key"))
            => (se'.map = se.map /\ se'.next_key = se.next_key)
       /\ (pc = "ExtSerializer" /\ FailedCall("serialize_element"))
            => (se' = se /\ unwrap(se'.fields_se).tag = unwrap(se.fields_se).tag
                         /\ unwrap(se'.fields_se).binary = unwrap(se.fields_se).binary)
      ]_vars

\* after a failed field the variant builder still holds the accepted field
C20_Witness ==
    /\ pc = "SerializeTupleVariant" /\ Len(log) = 2
    /\ log[1].call = Call("serialize_field", V_str(TextA)) /\ IsOk(log[1].ret)
    /\ log[2].call = Call("serialize_field", V_ext_tag_only(5))
    /\ log[2].ret = Err("expected i8 and bytes")
    /\ se = [idx |-> 3, vec |-> <<String(TextA)>>]

----------------------------------------------------------------------------
(* C21: no conversion result holds a String node in its fallback (not UTF-8) *)
(* branch: a text or a character converts to a String in the valid branch    *)
(* equal to the input, and raw bytes convert to a Binary node with exactly    *)
(* the input bytes, also when the bytes spell a valid text.                   *)

C21_NoFallbackString ==
    /\ (pc = "returned" /\ IsOk(result)) => ~HasFallback(result.val)
    /\ (Whole /\ input.call = "serialize_str")
          => (result = Ok(String(input.s)) /\ result.val.utf8)
    /\ (Whole /\ input.call = "serialize_char")
          => (result = Ok(String(<<input.c>>)) /\ result.val.utf8)
    /\ (Whole /\ input.call = "serialize_bytes")
          => (result = Ok(Binary(input.bytes)) /\ result.val.t # "String")

C21_Witness ==
    /\ Whole
    /\ input = V_bytes(TextA)
    /\ result = Ok(Binary(TextA))
    /\ to_value(V_str(TextA)) = Ok(String(TextA))
    /\ to_value(V_char(233)) = Ok(String(<<233>>))

----------------------------------------------------------------------------
(* C22: a present optional is transparent: Some(x) converts to exactly what  *)
(* x converts to (the same node or the same error), so Some(None) converts   *)
(* to Nil, the node of an absent optional.                                   *)

C22_SomeIsTransparent ==
    (Whole /\ input.call = "serialize_some")
        => /\ result = to_value(input.value)
           /\ input.value.call = "serialize_none"
                 => (result = Ok(Nil) /\ result = to_value(V_none))
           /\ input.value.call = "serialize_some"
                 => result = to_value(input.value.value)

C22_Witness ==
    /\ Whole
    /\ input = V_some(V_none)
    /\ result = Ok(Nil)
    /\ to_value(V_some(V_some(V_i8(5)))) = Ok(Integer("NegInt", 5))

----------------------------------------------------------------------------
(* C23: whenever an element is supplied to the extension tuple, fields_se is *)
(* Some: the debug assertion and the empty-message error of serialize_element *)
(* are reached by no call sequence that got the tuple from serialize_tuple,   *)
(* and fields_se, once installed, is not reset during the capture.            *)

\* the capture got its tuple from serialize_tuple
TupleOpened == StepExt /\ "len" \in DOMAIN input

\* the two ways out of the else branch of serialize_element
Uninstalled(r) == IsPanic(r) \/ r = Err("")

C23_FieldSerializerInstalled ==
    /\ TupleOpened
          => /\ is_some(se.fields_se)
             \* not replaced by a fresh one either: the slots follow the calls
             /\ is_some(unwrap(se.fields_se).tag) <=> Accepted(log, "serialize_i8") # {}
             /\ is_some(unwrap(se.fields_se).binary) <=> Accepted(log, "serialize_bytes") # {}
    /\ StepExt
          => \A i \in 1..Len(log) :
                log[i].call.op = "serialize_element" => ~Uninstalled(log[i].ret)
    /\ (StepExt /\ pc = "returned") => ~Uninstalled(result)
    /\ (Whole /\ IsExtTuple(input)) => ~Uninstalled(result)

C23_Witness ==
    /\ TupleOpened /\ pc = "ExtSerializer" /\ debug_assertions
    /\ Len(log) = 3
    /\ log[1].call.value = V_i8(5) /\ IsOk(log[1].ret)
    /\ log[2].call.value = V_bool(TRUE) /\ log[2].ret = Err("expected i8 and bytes")
    /\ log[3].call.value = V_custom_error /\ log[3].ret = Err("custom")
    /\ se = [fields_se |-> Some([tag |-> Some(5), binary |-> None])]

=============================================================================
